---- MODULE Spec2Model ----
(***************************************************************************)
(* Model of make_xml_from_docx.py: the line-oriented parser that rebuilds  *)
(* the Title -> Chapter -> Section tree from normalized paragraph lines.   *)
(*                                                                         *)
(* A line is a sequence of one-character strings, so that the regular      *)
(* expressions of the source are computed on the characters of the line.   *)
(* The em-dash (U+2014) is the character EM and the newline is NL.         *)
(* Positions are 1-based (Python index + 1).                               *)
(***************************************************************************)
EXTENDS Integers, Sequences, FiniteSets, TLC

\* Longest input (number of normalized paragraphs) explored.
MaxLines == 4

EM == "EMDASH"
NL == "\n"

(***************************************************************************)
(* Input lines: normalized (single-spaced, trimmed, non-empty), one of     *)
(* each shape the parser tells apart.                                      *)
(***************************************************************************)
\* "TITLE 3.<EM>P"
L_TITLE3 == <<"T", "I", "T", "L", "E", " ", "3", ".", EM, "P">>
\* "Title 4.<EM>Q. Chapter Sec."   (table-of-contents bleed into the title)
L_TITLE4 == <<"T", "i", "t", "l", "e", " ", "4", ".", EM, "Q", ".", " ", "C", "h", "a", "p", "t", "e", "r", " ", "S", "e", "c", ".">>
\* "Chapter 1.<EM>A."
L_CH1 == <<"C", "h", "a", "p", "t", "e", "r", " ", "1", ".", EM, "A", ".">>
\* "CHAPTER 2<EM>B.."   (no period after the digits, two trailing periods)
L_CH2 == <<"C", "H", "A", "P", "T", "E", "R", " ", "2", EM, "B", ".", ".">>
\* "Chapter Sec."   (table-of-contents row)
L_TOC == <<"C", "h", "a", "p", "t", "e", "r", " ", "S", "e", "c", ".">>
\* "1. A<EM> b"   (section header carrying body text)
L_INL == <<"1", ".", " ", "A", EM, " ", "b">>
\* "2. B<EM>"   (section start, nothing after the em-dash)
L_ST2 == <<"2", ".", " ", "B", EM>>
\* "3. C<EM>"
L_ST3 == <<"3", ".", " ", "C", EM>>
\* "x"   (plain text)
L_TXT == <<"x">>
\* "4. d"   (digits, period, space, no em-dash)
L_NUM == <<"4", ".", " ", "d">>
\* "5.e"   (digits, period, no space)
L_DEC == <<"5", ".", "e">>

LineSet ==
    {L_TITLE3, L_TITLE4, L_CH1, L_CH2, L_TOC, L_INL, L_ST2, L_ST3, L_TXT, L_NUM, L_DEC}

\* docx_path.stem of the input file
STEM_T3 == <<"T", "i", "t", "l", "e", " ", "3", " ", "-", " ", "P">>
STEM_X == <<"n", "o", "t", "e", "s">>
StemSet == {STEM_T3, STEM_X}

\* String literals of the source
S_chapter == <<"c", "h", "a", "p", "t", "e", "r">>
S_sec == <<"s", "e", "c">>
S_title == <<"t", "i", "t", "l", "e">>
S_Chapter == <<"C", "h", "a", "p", "t", "e", "r">>
S_ChapterSp == <<"C", "h", "a", "p", "t", "e", "r", " ">>
S_TITLESp == <<"T", "I", "T", "L", "E", " ">>
S_DotEm == <<".", EM>>
S_DotSp == <<".", " ">>
S_Zero == <<"0">>
S_UNSPECIFIED == <<"U", "N", "S", "P", "E", "C", "I", "F", "I", "E", "D">>
S_Q == <<"?">>
S_Dot == <<".">>

(***************************************************************************)
(* Character classes and string primitives                                 *)
(***************************************************************************)
IsDigit(c) == c \in {"0", "1", "2", "3", "4", "5", "6", "7", "8", "9"}

\* \s of the patterns and the whitespace of str.strip()
IsSpace(c) == c \in {" ", NL}

LowerMap ==
    [c \in {"A", "B", "C", "D", "E", "F", "G", "H", "I", "J", "K", "L", "M",
            "N", "O", "P", "Q", "R", "S", "T", "U", "V", "W", "X", "Y", "Z"} |->
        CASE c = "A" -> "a" [] c = "B" -> "b" [] c = "C" -> "c" [] c = "D" -> "d"
          [] c = "E" -> "e" [] c = "F" -> "f" [] c = "G" -> "g" [] c = "H" -> "h"
          [] c = "I" -> "i" [] c = "J" -> "j" [] c = "K" -> "k" [] c = "L" -> "l"
          [] c = "M" -> "m" [] c = "N" -> "n" [] c = "O" -> "o" [] c = "P" -> "p"
          [] c = "Q" -> "q" [] c = "R" -> "r" [] c = "S" -> "s" [] c = "T" -> "t"
          [] c = "U" -> "u" [] c = "V" -> "v" [] c = "W" -> "w" [] c = "X" -> "x"
          [] c = "Y" -> "y" [] c = "Z" -> "z"]

\* str.lower()
Lower(s) ==
    [n \in 1..Len(s) |-> IF s[n] \in DOMAIN LowerMap THEN LowerMap[s[n]] ELSE s[n]]

Min(S) == CHOOSE x \in S : \A y \in S : x <= y

Max(S) == CHOOSE x \in S : \A y \in S : x >= y

\* s[a-1:b] of Python, empty when a > b
Sub(s, a, b) == IF a > b THEN <<>> ELSE SubSeq(s, a, b)

\* str.startswith, and a literal matched at position p
MatchAt(s, p, lit) ==
    /\ p + Len(lit) - 1 <= Len(s)
    /\ Sub(s, p, p + Len(lit) - 1) = lit

StartsWith(s, lit) == MatchAt(s, 1, lit)

\* str.find: the first position where lit occurs, 0 when it does not (Python: -1)
Find(s, lit) ==
    LET hits == {n \in 1..Len(s) : MatchAt(s, n, lit)}
    IN  IF hits = {} THEN 0 ELSE Min(hits)

\* "lit in s"
Contains(s, lit) == Find(s, lit) # 0

\* the position after the longest run of spaces (\s*) starting at p
SkipSpaces(s, p) ==
    LET stops == {n \in p..Len(s) : ~IsSpace(s[n])}
    IN  IF stops = {} THEN Max({p, Len(s) + 1}) ELSE Min(stops)

\* the position after the longest run of digits (\d*) starting at p
SkipDigits(s, p) ==
    LET stops == {n \in p..Len(s) : ~IsDigit(s[n])}
    IN  IF stops = {} THEN Max({p, Len(s) + 1}) ELSE Min(stops)

\* everything from p on is whitespace: \s*$ matches at p
OnlySpaces(s, p) == SkipSpaces(s, p) > Len(s)

\* str.strip()
Strip(s) ==
    LET keep == {n \in 1..Len(s) : ~IsSpace(s[n])}
    IN  IF keep = {} THEN <<>> ELSE Sub(s, Min(keep), Max(keep))

\* str.rstrip(chars)
RStrip(s, chars) ==
    LET keep == {n \in 1..Len(s) : s[n] \notin chars}
    IN  IF keep = {} THEN <<>> ELSE Sub(s, 1, Max(keep))

NoMatch == [ok |-> FALSE, g1 |-> <<>>, g2 |-> <<>>, g3 |-> <<>>]

(***************************************************************************)
(* The patterns.  Each returns [ok, g1, g2, g3]: whether re.match succeeds *)
(* at the start of the line, and the groups of the first match in the      *)
(* order Python's backtracking tries them (greedy \s*, lazy .+?).          *)
(***************************************************************************)
\* where a group after a greedy \s* begins: the \s* started at p; it gives
\* one space back when it would otherwise leave nothing for .+ ; 0 = no match
GroupStart(s, p) ==
    LET q == SkipSpaces(s, p)
    IN  IF q <= Len(s) THEN q ELSE IF q > p THEN q - 1 ELSE 0

\* ^TITLE\s+(\d+)\.\s*<EM>\s*(.+?)\s*$   IGNORECASE
RE_TITLE_LINE_MIN(s) ==
    LET p2 == SkipSpaces(s, 6)
        p3 == SkipDigits(s, p2)
        p5 == SkipSpaces(s, p3 + 1)
        q  == GroupStart(s, p5 + 1)
        e  == Min({n \in q..Len(s) : OnlySpaces(s, n + 1)})
    IN  IF /\ StartsWith(Lower(s), S_title)
           /\ p2 > 6
           /\ p3 > p2
           /\ p3 <= Len(s) /\ s[p3] = "."
           /\ p5 <= Len(s) /\ s[p5] = EM
           /\ q > 0
        THEN [ok |-> TRUE, g1 |-> Sub(s, p2, p3 - 1), g2 |-> Sub(s, q, e), g3 |-> <<>>]
        ELSE NoMatch

\* \.?\s*$ matches at position r
ChapterTail(s, r) ==
    \/ OnlySpaces(s, r)
    \/ r <= Len(s) /\ s[r] = "." /\ OnlySpaces(s, r + 1)

\* ^Chapter\s+(\d+)\.?\s*<EM>\s*(.+?)\.?\s*$   IGNORECASE
RE_CHAPTER_HEAD(s) ==
    LET p2 == SkipSpaces(s, 8)
        p3 == SkipDigits(s, p2)
        p4 == IF p3 <= Len(s) /\ s[p3] = "." THEN p3 + 1 ELSE p3
        p5 == SkipSpaces(s, p4)
        q  == GroupStart(s, p5 + 1)
        e  == Min({n \in q..Len(s) : ChapterTail(s, n + 1)})
    IN  IF /\ StartsWith(Lower(s), S_chapter)
           /\ p2 > 8
           /\ p3 > p2
           /\ p5 <= Len(s) /\ s[p5] = EM
           /\ q > 0
        THEN [ok |-> TRUE, g1 |-> Sub(s, p2, p3 - 1), g2 |-> Sub(s, q, e), g3 |-> <<>>]
        ELSE NoMatch

\* ^(\d+)\.\s*(.+?)\s*<EM>\s*(.+)$  when needBody, and
\* ^(\d+)\.\s*(.+?)\s*<EM>\s*(.*)$  otherwise
SectionPattern(s, needBody) ==
    LET d     == SkipDigits(s, 1)
        spEnd == SkipSpaces(s, d + 1)
        \* the em-dash that follows a title ending at t, after \s*
        dash(t) == SkipSpaces(s, t + 1)
        \* where group 3 begins for that em-dash; 0 = .+ finds nothing
        body(t) == IF needBody
                   THEN GroupStart(s, dash(t) + 1)
                   ELSE SkipSpaces(s, dash(t) + 1)
        fits(a, t) == /\ dash(t) <= Len(s)
                      /\ s[dash(t)] = EM
                      /\ body(t) > 0
        cands == {c \in ((d + 1)..spEnd) \X (1..Len(s)) : c[2] >= c[1] /\ fits(c[1], c[2])}
        a == Max({c[1] : c \in cands})
        t == Min({c[2] : c \in {x \in cands : x[1] = a}})
    IN  IF /\ d > 1
           /\ d <= Len(s) /\ s[d] = "."
           /\ cands # {}
        THEN [ok |-> TRUE, g1 |-> Sub(s, 1, d - 1), g2 |-> Sub(s, a, t),
              g3 |-> Sub(s, body(t), Len(s))]
        ELSE NoMatch

RE_SECTION_INLINE(s) == SectionPattern(s, TRUE)

\* the pattern of the multi-paragraph branch (re.match at line 101)
RE_SECTION_MULTI(s) == SectionPattern(s, FALSE)

\* ^(\d+)\.\s
RE_SECTION_HEADER(s) ==
    LET d == SkipDigits(s, 1)
    IN  /\ d > 1
        /\ d + 1 <= Len(s)
        /\ s[d] = "."
        /\ IsSpace(s[d + 1])

\* re.search(r'Title\s+(\d+)', stem, IGNORECASE): group 1, or <<>> without a match
StemNumber(stem) ==
    LET low  == Lower(stem)
        hit(n) == LET p2 == SkipSpaces(stem, n + 5)
                  IN  /\ MatchAt(low, n, S_title)
                      /\ p2 > n + 5
                      /\ SkipDigits(stem, p2) > p2
        hits == {n \in 1..Len(stem) : hit(n)}
        n0   == Min(hits)
        p2   == SkipSpaces(stem, n0 + 5)
    IN  IF hits = {} THEN <<>> ELSE Sub(stem, p2, SkipDigits(stem, p2) - 1)

(***************************************************************************)
(* The result of each pattern on each input line, computed once.           *)
(***************************************************************************)
TitleMatchOf == [l \in LineSet |-> RE_TITLE_LINE_MIN(l)]

ChapterMatchOf == [l \in LineSet |-> RE_CHAPTER_HEAD(l)]

InlineMatchOf == [l \in LineSet |-> RE_SECTION_INLINE(l)]

MultiMatchOf == [l \in LineSet |-> RE_SECTION_MULTI(l)]

HeaderMatchOf == [l \in LineSet |-> RE_SECTION_HEADER(l)]

(***************************************************************************)
(* State of one run of to_xml_tree                                         *)
(*   paras            the normalized, non-empty paragraphs (line 50)       *)
(*   pc               where the run is: "title" (loop of build_title_name),*)
(*                    "title_end" (after that loop), "preamble" (first     *)
(*                    while loop), "parse" (second while loop), "body"     *)
(*                    (inner while loop), "done" (returned)                *)
(*   k                position of p in build_title_name's for loop         *)
(*   title_num, title_display   locals of build_title_name; <<>> is None   *)
(*   root             children of the USCode element: the Title elements   *)
(*   chapters         children of title_el, in insertion order; each holds *)
(*                    its name, its Section children, and src, the         *)
(*                    position of the line being classified when it was    *)
(*                    created                                              *)
(*   current_chapter  position in chapters of the Chapter element the      *)
(*                    closure variable refers to; 0 is None                *)
(*   i, j             outer and inner cursors (position = index + 1)       *)
(*   body_lines       the list being accumulated by the inner loop         *)
(*   body_src         the positions of the lines put on body_lines         *)
(***************************************************************************)
VARIABLES paras, pc, k, title_num, title_display, root, chapters,
          current_chapter, i, j, body_lines, body_src

vars == <<paras, pc, k, title_num, title_display, root, chapters,
          current_chapter, i, j, body_lines, body_src>>

Inputs == UNION {[1..n -> LineSet] : n \in 0..MaxLines}

Init ==
    /\ paras \in Inputs
    /\ pc = "title"
    /\ k = 1
    /\ title_num = <<>>
    /\ title_display = <<>>
    /\ root = <<>>
    /\ chapters = <<>>
    /\ current_chapter = 0
    /\ i = 1
    /\ j = 1
    /\ body_lines = <<>>
    /\ body_src = <<>>

(***************************************************************************)
(* build_title_name                                                        *)
(***************************************************************************)
\* lines 35-39: the captured text, cut at "Chapter" when it occurs
TitleText(g2) ==
    LET cut == Find(g2, S_Chapter)
    IN  IF cut # 0 THEN RStrip(Sub(g2, 1, cut - 1), {" ", "."}) ELSE g2

\* line 40
TitleDisplay(num, text) == S_TITLESp \o num \o S_DotEm \o Strip(text)

\* lines 34-40 for each input line, computed once
TitleDisplayOf ==
    [l \in LineSet |->
        LET m == RE_TITLE_LINE_MIN(l)
        IN  IF m.ok THEN TitleDisplay(m.g1, TitleText(m.g2)) ELSE <<>>]

\* a plausible slip: the loop goes on after a match, so the last match wins
TitleMatch_NoBreak ==
    /\ pc = "title"
    /\ k <= Len(paras)
    /\ TitleMatchOf[paras[k]].ok
    /\ title_num' = TitleMatchOf[paras[k]].g1
    /\ title_display' = TitleDisplayOf[paras[k]]
    /\ k' = k + 1
    /\ UNCHANGED <<paras, pc, root, chapters, current_chapter, i, j, body_lines, body_src>>

\* lines 32-41: p matches; the title is set and the loop is left
TitleMatch ==
    /\ pc = "title"
    /\ k <= Len(paras)
    /\ TitleMatchOf[paras[k]].ok
    /\ title_num' = TitleMatchOf[paras[k]].g1
    /\ title_display' = TitleDisplayOf[paras[k]]
    /\ pc' = "title_end"
    /\ UNCHANGED <<paras, k, root, chapters, current_chapter, i, j, body_lines, body_src>>

\* lines 31-33: p does not match
TitleNext ==
    /\ pc = "title"
    /\ k <= Len(paras)
    /\ ~TitleMatchOf[paras[k]].ok
    /\ k' = k + 1
    /\ UNCHANGED <<paras, pc, title_num, title_display, root, chapters,
                   current_chapter, i, j, body_lines, body_src>>

\* line 31: the paragraphs are exhausted
TitleExhausted ==
    /\ pc = "title"
    /\ k > Len(paras)
    /\ pc' = "title_end"
    /\ UNCHANGED <<paras, k, title_num, title_display, root, chapters,
                   current_chapter, i, j, body_lines, body_src>>

\* lines 42-47 with no title found, then lines 52-59: the number comes from
\* the file name, and the Title element is created
TitleFallback ==
    /\ pc = "title_end"
    /\ title_display = <<>>
    /\ \E stem \in StemSet :
          LET num == IF StemNumber(stem) # <<>> THEN StemNumber(stem) ELSE S_Q
          IN  /\ title_num' = num
              /\ title_display' = S_TITLESp \o num \o S_DotEm
    /\ root' = Append(root, [name |-> title_display'])
    /\ i' = 1
    /\ pc' = "preamble"
    /\ UNCHANGED <<paras, k, chapters, current_chapter, j, body_lines, body_src>>

\* lines 42, 47 with a title found, then lines 52-59
TitleReturn ==
    /\ pc = "title_end"
    /\ title_display # <<>>
    /\ root' = Append(root, [name |-> title_display])
    /\ i' = 1
    /\ pc' = "preamble"
    /\ UNCHANGED <<paras, k, title_num, title_display, chapters, current_chapter,
                   j, body_lines, body_src>>

(***************************************************************************)
(* The first loop of to_xml_tree: skip the preamble                        *)
(***************************************************************************)
\* line 63
IsTOC(line) ==
    /\ StartsWith(Lower(line), S_chapter)
    /\ Contains(Lower(line), S_sec)
    /\ ~ChapterMatchOf[line].ok

IsTOCOf == [l \in LineSet |-> IsTOC(l)]

\* a plausible slip: the preamble also ends at a section line
PreambleStops_AtSection(line) ==
    \/ ChapterMatchOf[line].ok
    \/ InlineMatchOf[line].ok
    \/ MultiMatchOf[line].ok

\* line 66
PreambleStops(line) == ChapterMatchOf[line].ok

\* lines 63-65
PreambleSkipTOC ==
    /\ pc = "preamble"
    /\ i <= Len(paras)
    /\ IsTOCOf[paras[i]]
    /\ i' = i + 1
    /\ UNCHANGED <<paras, pc, k, title_num, title_display, root, chapters,
                   current_chapter, j, body_lines, body_src>>

\* lines 66-67, 70
PreambleBreak ==
    /\ pc = "preamble"
    /\ i <= Len(paras)
    /\ ~IsTOCOf[paras[i]]
    /\ PreambleStops(paras[i])
    /\ current_chapter' = 0
    /\ pc' = "parse"
    /\ UNCHANGED <<paras, k, title_num, title_display, root, chapters, i, j,
                   body_lines, body_src>>

\* line 68
PreambleSkip ==
    /\ pc = "preamble"
    /\ i <= Len(paras)
    /\ ~IsTOCOf[paras[i]]
    /\ ~PreambleStops(paras[i])
    /\ i' = i + 1
    /\ UNCHANGED <<paras, pc, k, title_num, title_display, root, chapters,
                   current_chapter, j, body_lines, body_src>>

\* line 60 false, line 70
PreambleEnd ==
    /\ pc = "preamble"
    /\ i > Len(paras)
    /\ current_chapter' = 0
    /\ pc' = "parse"
    /\ UNCHANGED <<paras, k, title_num, title_display, root, chapters, i, j,
                   body_lines, body_src>>

(***************************************************************************)
(* start_chapter, add_section                                              *)
(***************************************************************************)
\* a plausible slip: the trailing periods of the captured name are kept
ChapterName_KeepPeriods(num, name) ==
    S_ChapterSp \o num \o S_DotEm \o Strip(name) \o S_Dot

\* line 75
ChapterName(num, name) ==
    S_ChapterSp \o num \o S_DotEm \o RStrip(Strip(name), {"."}) \o S_Dot

\* lines 72-75: the children of title_el after start_chapter; the new
\* Chapter is the last one, and current_chapter refers to it
start_chapter(chs, num, name, at) ==
    Append(chs, [name |-> ChapterName(num, name), sections |-> <<>>, src |-> at])

\* a plausible slip: the Section goes under the Title's first Chapter
add_section_FirstChapter(chs, cur, num, title, body, at, from) ==
    LET chs1 == IF cur = 0 THEN start_chapter(chs, S_Zero, S_UNSPECIFIED, at) ELSE chs
        cur1 == IF cur = 0 THEN Len(chs1) ELSE cur
        s    == [name |-> num \o S_DotSp \o Strip(title), text |-> Strip(body),
                 src |-> at, body_src |-> from]
    IN  [chapters |-> [chs1 EXCEPT ![1].sections = Append(@, s)],
         current_chapter |-> cur1]

\* lines 77-82: the children of title_el and current_chapter after
\* add_section; at and from record where the Section and its body come from
add_section(chs, cur, num, title, body, at, from) ==
    LET chs1 == IF cur = 0 THEN start_chapter(chs, S_Zero, S_UNSPECIFIED, at) ELSE chs
        cur1 == IF cur = 0 THEN Len(chs1) ELSE cur
        s    == [name |-> num \o S_DotSp \o Strip(title), text |-> Strip(body),
                 src |-> at, body_src |-> from]
    IN  [chapters |-> [chs1 EXCEPT ![cur1].sections = Append(@, s)],
         current_chapter |-> cur1]

\* "\n".join(lines)
RECURSIVE JoinNL(_)
JoinNL(lines) ==
    IF lines = <<>> THEN <<>>
    ELSE IF Len(lines) = 1 THEN lines[1]
    ELSE lines[1] \o <<NL>> \o JoinNL(Tail(lines))

(***************************************************************************)
(* The second loop of to_xml_tree: chapters and sections                   *)
(***************************************************************************)
\* lines 88-92
ParseChapter ==
    /\ pc = "parse"
    /\ i <= Len(paras)
    /\ ChapterMatchOf[paras[i]].ok
    /\ LET chm == ChapterMatchOf[paras[i]]
       IN  /\ chapters' = start_chapter(chapters, chm.g1, chm.g2, i)
           /\ current_chapter' = Len(chapters')
    /\ i' = i + 1
    /\ UNCHANGED <<paras, pc, k, title_num, title_display, root, j, body_lines, body_src>>

\* lines 94-98
ParseInline ==
    /\ pc = "parse"
    /\ i <= Len(paras)
    /\ ~ChapterMatchOf[paras[i]].ok
    /\ InlineMatchOf[paras[i]].ok
    /\ LET sm == InlineMatchOf[paras[i]]
           r  == add_section(chapters, current_chapter, sm.g1, sm.g2, sm.g3, i, <<i>>)
       IN  /\ chapters' = r.chapters
           /\ current_chapter' = r.current_chapter
    /\ i' = i + 1
    /\ UNCHANGED <<paras, pc, k, title_num, title_display, root, j, body_lines, body_src>>

\* lines 101-105: a section starts here; the inner loop begins after it
ParseSectionStart ==
    /\ pc = "parse"
    /\ i <= Len(paras)
    /\ ~ChapterMatchOf[paras[i]].ok
    /\ ~InlineMatchOf[paras[i]].ok
    /\ MultiMatchOf[paras[i]].ok
    /\ LET first_body == MultiMatchOf[paras[i]].g3
       IN  /\ body_lines' = IF first_body # <<>> THEN <<first_body>> ELSE <<>>
           /\ body_src' = IF first_body # <<>> THEN <<i>> ELSE <<>>
    /\ j' = i + 1
    /\ pc' = "body"
    /\ UNCHANGED <<paras, k, title_num, title_display, root, chapters, current_chapter, i>>

\* line 116
ParseSkip ==
    /\ pc = "parse"
    /\ i <= Len(paras)
    /\ ~ChapterMatchOf[paras[i]].ok
    /\ ~InlineMatchOf[paras[i]].ok
    /\ ~MultiMatchOf[paras[i]].ok
    /\ i' = i + 1
    /\ UNCHANGED <<paras, pc, k, title_num, title_display, root, chapters,
                   current_chapter, j, body_lines, body_src>>

\* line 85 false, lines 118-132: the tree is indented and returned
ParseEnd ==
    /\ pc = "parse"
    /\ i > Len(paras)
    /\ pc' = "done"
    /\ UNCHANGED <<paras, k, title_num, title_display, root, chapters,
                   current_chapter, i, j, body_lines, body_src>>

\* a plausible slip: a chapter header does not end the body
StopsBody_NoChapter(nxt) ==
    \/ InlineMatchOf[nxt].ok
    \/ HeaderMatchOf[nxt]

\* a plausible slip: a bare section header does not end the body
StopsBody_NoHeader(nxt) ==
    \/ ChapterMatchOf[nxt].ok
    \/ InlineMatchOf[nxt].ok

\* line 108
StopsBody(nxt) ==
    \/ ChapterMatchOf[nxt].ok
    \/ InlineMatchOf[nxt].ok
    \/ HeaderMatchOf[nxt]

\* lines 106-111
BodyAppend ==
    /\ pc = "body"
    /\ j <= Len(paras)
    /\ ~StopsBody(paras[j])
    /\ body_lines' = Append(body_lines, paras[j])
    /\ body_src' = Append(body_src, j)
    /\ j' = j + 1
    /\ UNCHANGED <<paras, pc, k, title_num, title_display, root, chapters,
                   current_chapter, i>>

\* a plausible slip: the outer cursor is not moved to the inner cursor
BodyResume_Stay(outer, inner) == outer

\* line 113
BodyResume(outer, inner) == inner

\* lines 106 false or 108-109, then 112-114
BodyEmit ==
    /\ pc = "body"
    /\ IF j <= Len(paras) THEN StopsBody(paras[j]) ELSE TRUE
    /\ LET m == MultiMatchOf[paras[i]]
           r == add_section(chapters, current_chapter, m.g1, m.g2,
                            JoinNL(body_lines), i, body_src)
       IN  /\ chapters' = r.chapters
           /\ current_chapter' = r.current_chapter
    /\ i' = BodyResume(i, j)
    /\ pc' = "parse"
    /\ UNCHANGED <<paras, k, title_num, title_display, root, j, body_lines, body_src>>

Next ==
    \/ TitleMatch
    \/ TitleNext
    \/ TitleExhausted
    \/ TitleFallback
    \/ TitleReturn
    \/ PreambleSkipTOC
    \/ PreambleBreak
    \/ PreambleSkip
    \/ PreambleEnd
    \/ ParseChapter
    \/ ParseInline
    \/ ParseSectionStart
    \/ ParseSkip
    \/ ParseEnd
    \/ BodyAppend
    \/ BodyEmit

Spec == Init /\ [][Next]_vars

\* the run is one sequential thread: an enabled step is always taken
FairSpec == Spec /\ WF_vars(Next)

(***************************************************************************)
(* Vocabulary of the properties                                            *)
(***************************************************************************)
N == Len(paras)

\* line n matches the chapter-header pattern
IsChapterLine(n) == ChapterMatchOf[paras[n]].ok

\* line n has the shape of a section: "<digits>. <title><EM>..."
IsSectionLine(n) == InlineMatchOf[paras[n]].ok \/ MultiMatchOf[paras[n]].ok

\* line n is a section-start line: "<digits>. <title><EM>", nothing after the em-dash
IsStartLine(n) ==
    /\ HeaderMatchOf[paras[n]]
    /\ MultiMatchOf[paras[n]].ok
    /\ MultiMatchOf[paras[n]].g3 = <<>>

\* line n starts with "chapter", contains "sec", and is no chapter header
IsTOCLine(n) ==
    /\ StartsWith(Lower(paras[n]), S_chapter)
    /\ Contains(Lower(paras[n]), S_sec)
    /\ ~IsChapterLine(n)

\* line n matches the title-declaration pattern
IsTitleLine(n) == TitleMatchOf[paras[n]].ok

\* the first chapter-header line, N + 1 when there is none
FirstChapterAt ==
    LET heads == {n \in 1..N : IsChapterLine(n)}
    IN  IF heads = {} THEN N + 1 ELSE Min(heads)

\* the Sections of the tree, as (chapter position, section position)
SectionAt == {cs \in (DOMAIN chapters) \X (1..N) : cs[2] \in DOMAIN chapters[cs[1]].sections}

Sec(cs) == chapters[cs[1]].sections[cs[2]]

\* line n ends a body: chapter header, inline section, or digits, period, whitespace
EndsBody(n) ==
    \/ ChapterMatchOf[paras[n]].ok
    \/ InlineMatchOf[paras[n]].ok
    \/ HeaderMatchOf[paras[n]]

\* line n starts with digits followed by a period
DigitsPeriod(n) ==
    LET d == SkipDigits(paras[n], 1)
    IN  d > 1 /\ d <= Len(paras[n]) /\ paras[n][d] = "."

\* the first line after n for which stop holds, N + 1 when there is none
NextStop(n, stop(_)) ==
    LET stops == {m \in (n + 1)..N : stop(m)}
    IN  IF stops = {} THEN N + 1 ELSE Min(stops)

\* the positions n+1 .. e-1, in order, and the lines at them
Run(n, e) == [x \in 1..(e - 1 - n) |-> n + x]

LinesAt(run) == [x \in 1..Len(run) |-> paras[run[x]]]

Done == pc = "done"

(***************************************************************************)
(* C1 (as claimed): the body of a section that spans several input lines   *)
(* (the text after the em-dash of its header line, if any, then every line *)
(* up to the next line that ends the body) is exactly those lines joined   *)
(* with newlines, whether or not the header line carries body text.        *)
(* Refuted by the code: a header line that carries body text is taken by   *)
(* the inline branch, and the lines after it are dropped.                  *)
(***************************************************************************)
C1_BodyIsAllLines ==
    Done =>
        \A cs \in SectionAt :
            LET n     == Sec(cs).src
                first == MultiMatchOf[paras[n]].g3
                cont  == LinesAt(Run(n, NextStop(n, EndsBody)))
                lines == IF first # <<>> THEN <<first>> \o cont ELSE cont
            IN  Len(lines) >= 2 => Sec(cs).text = JoinNL(lines)

(***************************************************************************)
(* C2 (as claimed): a section line with no chapter-header line before it   *)
(* yields a Chapter named "Chapter 0.<EM>UNSPECIFIED." that contains the   *)
(* Section built from that line.                                           *)
(* Refuted by the code: the first loop discards every line before the      *)
(* first chapter header, so add_section never runs without a chapter.      *)
(***************************************************************************)
C2_ImplicitChapter ==
    Done =>
        \A n \in 1..N :
            (IsSectionLine(n) /\ n < FirstChapterAt) =>
                \E cs \in SectionAt :
                    /\ Sec(cs).src = n
                    /\ chapters[cs[1]].name =
                           S_ChapterSp \o S_Zero \o S_DotEm \o S_UNSPECIFIED \o S_Dot

(***************************************************************************)
(* C3: the preamble is left only at the first chapter-header line; no line *)
(* before it creates a Chapter or a Section, and without a chapter-header  *)
(* line the Title has no Chapter and no Section.                           *)
(***************************************************************************)
C3_PreambleDiscarded ==
    /\ pc \in {"title", "title_end", "preamble"} => chapters = <<>>
    /\ pc = "preamble" => i <= FirstChapterAt
    /\ pc \in {"parse", "body", "done"} => i >= FirstChapterAt
    /\ \A c \in DOMAIN chapters : chapters[c].src >= FirstChapterAt
    /\ \A cs \in SectionAt : Sec(cs).src > FirstChapterAt
    /\ FirstChapterAt > N => chapters = <<>>

\* a table-of-contents row and a section line precede the first chapter
\* header, and the run has ended with chapters created
C3_Witness ==
    /\ Done
    /\ chapters # <<>>
    /\ \E n \in 1..N : n < FirstChapterAt /\ IsSectionLine(n)
    /\ \E n \in 1..N : n < FirstChapterAt /\ IsTOCLine(n)

(***************************************************************************)
(* C4: the name of the Chapter created from a chapter-header line is       *)
(* "Chapter {num}.<EM>{text}." with the digits of the line, the text of    *)
(* the line without its trailing periods and spaces, and exactly one       *)
(* period at the end.                                                      *)
(***************************************************************************)
C4_ChapterNameOnePeriod ==
    \A c \in DOMAIN chapters :
        LET nm    == chapters[c].name
            line  == paras[chapters[c].src]
            p     == SkipSpaces(line, 8)
            digs  == Sub(line, p, SkipDigits(line, p) - 1)
            after == Strip(Sub(line, Find(line, <<EM>>) + 1, Len(line)))
            d     == Len(S_ChapterSp) + Len(digs) + 1
            text  == Sub(nm, d + 2, Len(nm) - 1)
        IN  IsChapterLine(chapters[c].src) =>
                /\ StartsWith(nm, S_ChapterSp \o digs \o S_DotEm)
                /\ nm[Len(nm)] = "."
                /\ nm[Len(nm) - 1] # "."
                /\ StartsWith(after, text)
                /\ \A x \in (Len(text) + 1)..Len(after) : after[x] \in {".", " "}

\* a Chapter was created from a header with no period after the digits
\* and two trailing periods
C4_Witness ==
    \E c \in DOMAIN chapters :
        /\ paras[chapters[c].src] = L_CH2
        /\ chapters[c].name = <<"C", "h", "a", "p", "t", "e", "r", " ", "2", ".", EM, "B", ".">>

(***************************************************************************)
(* C5 (as claimed): two consecutive section-start lines after a chapter    *)
(* header each produce a Section, and the body of each is empty.           *)
(* Refuted: the second Section takes the lines that follow it as its body. *)
(***************************************************************************)
C5_BothBodiesEmpty ==
    Done =>
        \A n \in 1..(N - 1) :
            (n > FirstChapterAt /\ IsStartLine(n) /\ IsStartLine(n + 1)) =>
                \E a, b \in SectionAt :
                    /\ Sec(a).src = n /\ Sec(a).text = <<>>
                    /\ Sec(b).src = n + 1 /\ Sec(b).text = <<>>

(***************************************************************************)
(* C5 (amended): two consecutive section-start lines after a chapter       *)
(* header each produce their own Section; the body of the first is empty   *)
(* and does not hold the second line; the body of the second is empty when *)
(* no body line follows it (the next line ends the body, or the input      *)
(* ends).                                                                  *)
(***************************************************************************)
C5_ConsecutiveStarts ==
    Done =>
        \A n \in 1..(N - 1) :
            (n > FirstChapterAt /\ IsStartLine(n) /\ IsStartLine(n + 1)) =>
                \E a, b \in SectionAt :
                    /\ a # b
                    /\ Sec(a).src = n /\ Sec(a).text = <<>> /\ Sec(a).body_src = <<>>
                    /\ Sec(b).src = n + 1
                    /\ (n + 2 > N \/ EndsBody(n + 2)) => Sec(b).text = <<>>

\* the two start lines were parsed, and both Sections are empty
C5_Witness ==
    /\ Done
    /\ \E n \in 1..(N - 1) :
          /\ n > FirstChapterAt /\ IsStartLine(n) /\ IsStartLine(n + 1)
          /\ \E a, b \in SectionAt :
                /\ Sec(a).src = n /\ Sec(a).text = <<>>
                /\ Sec(b).src = n + 1 /\ Sec(b).text = <<>>

\* the first line that matches the title pattern (when there is one)
FirstTitleAt == Min({n \in 1..N : IsTitleLine(n)})

\* what one step may do to the title
C6_Step ==
    /\ title_display # <<>> => (title_display' = title_display /\ title_num' = title_num)
    /\ root # <<>> => root' = root
    /\ (pc' \notin {"title"} /\ \E n \in 1..N : IsTitleLine(n)) =>
          LET m == TitleMatchOf[paras[FirstTitleAt]]
          IN  /\ title_num' = m.g1
              /\ title_display' = TitleDisplay(m.g1, TitleText(m.g2))
    /\ pc' \in {"preamble", "parse", "body", "done"} =>
          (Len(root') = 1 /\ root'[1].name = title_display')

(***************************************************************************)
(* C6: the Title's number and display name come from the first line that   *)
(* matches the title pattern, wherever it is; once set they are never      *)
(* changed, and the tree holds exactly one Title, which carries that name. *)
(***************************************************************************)
C6_TitleFromFirstMatch == [][C6_Step]_vars

\* two title lines, the first of them not the first line of the input:
\* the Title carries the name the first one gives
C6_Witness ==
    /\ Done
    /\ \E a, b \in 1..N : 1 < a /\ a < b /\ paras[a] = L_TITLE4 /\ paras[b] = L_TITLE3
    /\ ~IsTitleLine(1)
    /\ root = <<[name |-> <<"T", "I", "T", "L", "E", " ", "4", ".", EM, "Q">>]>>

\* the number of steps the run can still take, at most
Rank ==
    CASE pc = "title"     -> 3 * N + 5 + (N + 1 - k)
      [] pc = "title_end" -> 3 * N + 4
      [] pc = "preamble"  -> 2 * N + 3 + (N + 1 - i)
      [] pc = "parse"     -> 2 * (N + 2 - i)
      [] pc = "body"      -> 2 * (N + 2 - j) + 1
      [] pc = "done"      -> 0

\* what one step may do to the cursors
C7_Step ==
    /\ Rank' < Rank /\ Rank' >= 0
    /\ k' >= k /\ i' >= i
    /\ (pc = "title" /\ pc' = "title") => k' = k + 1
    /\ (pc = "preamble" /\ pc' = "preamble") => i' = i + 1
    /\ (pc = "parse" /\ pc' = "parse") => i' = i + 1
    /\ (pc = "parse" /\ pc' = "body") => (i' = i /\ j' = i + 1)
    /\ (pc = "body" /\ pc' = "body") => (i' = i /\ j' = j + 1)
    /\ (pc = "body" /\ pc' = "parse") => (j > i /\ i' = j)
    /\ i' <= N + 1 /\ j' <= N + 1 /\ k' <= N + 1

(***************************************************************************)
(* C7: every run ends without an error: no state before the end is stuck   *)
(* and every step lowers Rank, a natural number, so a run from an input of *)
(* N lines takes at most 4N + 5 steps; each iteration of a loop moves its  *)
(* cursor forward by at least one line, the inner cursor starts after the  *)
(* outer one and only moves forward, the outer cursor resumes where the    *)
(* inner one stopped, and no cursor passes the end of the input.           *)
(***************************************************************************)
C7_TerminatesForward == [](Done \/ ENABLED Next) /\ [][C7_Step]_vars

\* a continuation scan took lines and stopped before the end of the input
C7_Witness ==
    /\ Done
    /\ \E cs \in SectionAt :
          /\ Len(Sec(cs).body_src) >= 1
          /\ Sec(cs).body_src[Len(Sec(cs).body_src)] < N

(***************************************************************************)
(* C8: every Section is under exactly one Chapter, the one created by the  *)
(* nearest chapter-header line before the Section's header line; every     *)
(* Chapter is under the single Title; Chapters and Sections are in the     *)
(* order of the lines that created them.                                   *)
(***************************************************************************)
C8_Ownership ==
    /\ Len(root) <= 1
    /\ chapters # <<>> => Len(root) = 1
    /\ \A c \in DOMAIN chapters : IsChapterLine(chapters[c].src)
    /\ \A c1, c2 \in DOMAIN chapters : c1 < c2 => chapters[c1].src < chapters[c2].src
    /\ \A a, b \in SectionAt : Sec(a).src = Sec(b).src => a = b
    /\ \A a, b \in SectionAt :
          (a[1] = b[1] /\ a[2] < b[2]) => Sec(a).src < Sec(b).src
    /\ \A cs \in SectionAt :
          LET before == {m \in 1..(Sec(cs).src - 1) : IsChapterLine(m)}
          IN  before # {} /\ chapters[cs[1]].src = Max(before)

\* two Chapters, each with a Section of its own
C8_Witness ==
    /\ Done
    /\ Len(chapters) >= 2
    /\ chapters[1].sections # <<>>
    /\ chapters[2].sections # <<>>

(***************************************************************************)
(* C9 (as claimed): a line that starts with "chapter", contains "sec" and  *)
(* is no chapter header creates no Chapter and no Section and is part of   *)
(* no Section body, wherever it occurs.                                    *)
(* Refuted by the code: the inner loop appends such a line to the body     *)
(* being accumulated.                                                      *)
(***************************************************************************)
C9_TOCSkippedEverywhere ==
    \A n \in 1..N :
        IsTOCLine(n) =>
            /\ \A c \in DOMAIN chapters : chapters[c].src # n
            /\ \A cs \in SectionAt :
                  /\ Sec(cs).src # n
                  /\ \A x \in DOMAIN Sec(cs).body_src : Sec(cs).body_src[x] # n

\* the lines said to end a body, with "digits followed by a period"
ClaimedStop(n) ==
    \/ ChapterMatchOf[paras[n]].ok
    \/ InlineMatchOf[paras[n]].ok
    \/ DigitsPeriod(n)

(***************************************************************************)
(* C10 (as claimed): the body of a section-start line is the longest run   *)
(* of following lines none of which is a chapter header, an inline section *)
(* or a line starting with digits followed by a period.                    *)
(* Refuted: a line such as "5.e" starts with digits and a period and is    *)
(* taken into the body; the code stops only at digits, period, whitespace. *)
(***************************************************************************)
C10_StopsAtDigitsPeriod ==
    \A cs \in SectionAt :
        LET n == Sec(cs).src
        IN  ~InlineMatchOf[paras[n]].ok =>
                Sec(cs).body_src = Run(n, NextStop(n, ClaimedStop))

(***************************************************************************)
(* C10 (amended): the body of a section-start line is the longest run of   *)
(* following lines none of which is a chapter header, an inline section or *)
(* a line starting with digits, a period and a whitespace character; the   *)
(* line that ends the run is not in the body and is the next line the main *)
(* loop classifies, so that it creates its own Chapter or Section; at the  *)
(* end of the input the body is emitted as accumulated.                    *)
(***************************************************************************)
C10_BodyRun ==
    /\ pc = "body" =>
          /\ j <= NextStop(i, EndsBody)
          /\ body_src = Run(i, j)
    /\ \A cs \in SectionAt :
          LET n == Sec(cs).src
              e == NextStop(n, EndsBody)
          IN  ~InlineMatchOf[paras[n]].ok =>
                  /\ Sec(cs).body_src = Run(n, e)
                  /\ Sec(cs).text = JoinNL(LinesAt(Run(n, e)))
                  /\ i >= e
                  /\ (cs[1] = Len(chapters) /\ cs[2] = Len(chapters[cs[1]].sections)
                        /\ pc = "parse" /\ i <= e) => i = e
                  /\ (Done /\ e <= N /\ IsChapterLine(e)) =>
                        \E c \in DOMAIN chapters : chapters[c].src = e
                  /\ (Done /\ e <= N /\ IsSectionLine(e)) =>
                        \E x \in SectionAt : Sec(x).src = e

\* a body of one line was ended by a chapter header, which then created
\* its own Chapter
C10_Witness ==
    /\ Done
    /\ \E cs \in SectionAt :
          /\ IsStartLine(Sec(cs).src)
          /\ Len(Sec(cs).body_src) = 1
          /\ Sec(cs).src + 2 <= N
          /\ IsChapterLine(Sec(cs).src + 2)
          /\ \E c \in DOMAIN chapters : chapters[c].src = Sec(cs).src + 2

====
